---- MODULE Spec2Model ----
(***************************************************************************)
(* The NHL goal predictor: three batch scripts that share a directory of   *)
(* JSON files.                                                             *)
(*   daily_predict.py     ranks today's eligible players and writes the    *)
(*                        dated prediction snapshot and latest.json        *)
(*   fetch_results.py     compares yesterday's top 3 with the scorers      *)
(*   update_dashboard.py  aggregates the historical results per model      *)
(*                                                                         *)
(* Numbers.  Python floats are modelled as exact fixed-point integers:     *)
(*   avg_goals, shooting_pct, goal_probability   in thousandths            *)
(*   avg_shots                                   in hundredths             *)
(*   goal_probability_raw                        in units of 1/100000      *)
(*   hit_rate                                    in tenths of a percent    *)
(* round() is round-half-even on the exact quotient.                       *)
(* Presentation fields (names, positions, matchup labels, timestamps) are  *)
(* left out of the records.                                                *)
(***************************************************************************)
EXTENDS Integers, Sequences, FiniteSets, TLC

VARIABLES
    clock,               \* the calendar day datetime.now() falls on
    pc,                  \* position of the running script, "idle" between runs
    exit_status,         \* how the last script run ended
    TODAY,               \* daily_predict: Config.TODAY
    todays_games,        \* daily_predict: the games fetched for TODAY
    roster,              \* daily_predict: the roster entries the API returned
    all_players,         \* daily_predict: the eligible players
    output,              \* daily_predict: the snapshot about to be written
    predFiles,           \* data/predictions/neural_network/<date>.json
    predLatest,          \* data/predictions/neural_network/latest.json
    YESTERDAY,           \* fetch_results: Config.YESTERDAY
    games,               \* fetch_results: the games fetched for YESTERDAY
    all_scorers,         \* fetch_results: the scorers of those games
    comparison_results,  \* fetch_results: one comparison per model found
    resultFiles,         \* data/results/<date>.json
    resultLatest,        \* data/results/latest.json
    predictions_by_model,\* update_dashboard: latest.json of every model
    historical_results,  \* update_dashboard: the dated results, by file name
    model_stats,         \* update_dashboard: the statistics per model
    indexHtml            \* index.html: the statistics rendered, <<>> if absent

vars == <<clock, pc, exit_status, TODAY, todays_games, roster, all_players,
          output, predFiles, predLatest, YESTERDAY, games, all_scorers,
          comparison_results, resultFiles, resultLatest, predictions_by_model,
          historical_results, model_stats, indexHtml>>

predictVars == <<TODAY, todays_games, roster, all_players, output>>
resultVars == <<YESTERDAY, games, all_scorers, comparison_results>>
dashboardVars == <<predictions_by_model, historical_results, model_stats,
                   indexHtml>>
predStore == <<predFiles, predLatest>>
resultStore == <<resultFiles, resultLatest>>

----------------------------------------------------------------------------
(* Bounds of the model *)

MaxRoster == 4      \* roster entries fetched in one prediction run
MaxDay == 2         \* last calendar day the clock reaches
MaxHist == 11       \* dated result files in a drawn historical log

(* Program constants *)

MinGames == 3           \* stats['games_played'] >= 3
HotGoals == 3           \* last5_goals >= 3
TopN == 3               \* predictions[:3], total_predictions += 3
RetainDays == 10        \* daily_results[-10:]
ProbFloor == 20         \* 0.02 in thousandths
ProbCeil == 600         \* 0.60 in thousandths
ProbScale == 550        \* 0.55 in thousandths

MODEL_NAME == "neural_network"

----------------------------------------------------------------------------
(* Helpers *)

RECURSIVE SumSeq(_)
SumSeq(s) == IF s = <<>> THEN 0 ELSE Head(s) + SumSeq(Tail(s))

Reverse(s) == [i \in 1..Len(s) |-> s[Len(s) + 1 - i]]

Last(s, k) == IF Len(s) <= k THEN s ELSE SubSeq(s, Len(s) - k + 1, Len(s))

First(s, k) == IF Len(s) <= k THEN s ELSE SubSeq(s, 1, k)

MaxOf(S) == CHOOSE x \in S : \A y \in S : y <= x

\* Python's round(num / den, digits) once num is scaled by 10^digits:
\* the nearest integer to num / den, a tie going to the even one.
round(num, den) ==
    LET q == num \div den
        r == num % den
    IN  IF 2 * r < den THEN q
        ELSE IF 2 * r > den THEN q + 1
        ELSE IF q % 2 = 0 THEN q ELSE q + 1

----------------------------------------------------------------------------
(* daily_predict.py, sections 2 and 3: the feature set of a player *)

\* get_player_current_stats with the shot count floored at 1.
get_player_current_stats_floor(api) ==
    IF ~api.found \/ api.gamesPlayed < 1
    THEN [ok |-> FALSE]
    ELSE [ok |-> TRUE,
          games_played |-> api.gamesPlayed,
          season_goals |-> api.goals,
          season_shots |-> api.shots,
          avg_goals |-> round(1000 * api.goals, api.gamesPlayed),
          avg_shots |-> round(100 * api.shots, api.gamesPlayed),
          shooting_pct |-> round(1000 * api.goals,
                                 IF api.shots > 1 THEN api.shots ELSE 1),
          last5_goals |-> api.last5_goals]

\* What the player landing endpoint returned: found is FALSE for a non-200
\* answer, an exception or an empty subSeason.
get_player_current_stats(api) ==
    IF ~api.found \/ api.gamesPlayed < 1
    THEN [ok |-> FALSE]
    ELSE [ok |-> TRUE,
          games_played |-> api.gamesPlayed,
          season_goals |-> api.goals,
          season_shots |-> api.shots,
          avg_goals |-> round(1000 * api.goals, api.gamesPlayed),
          avg_shots |-> round(100 * api.shots, api.gamesPlayed),
          shooting_pct |-> IF api.shots > 0
                           THEN round(1000 * api.goals, api.shots)
                           ELSE 0,
          last5_goals |-> api.last5_goals]

\* Eligible with the threshold read as "more than".
Eligible_more_than(stats) == stats.ok /\ stats.games_played > MinGames

Eligible(stats) == stats.ok /\ stats.games_played >= MinGames

PlayerOf(entry, stats) ==
    [player_id |-> entry.player_id,
     games_played |-> stats.games_played,
     season_goals |-> stats.season_goals,
     season_shots |-> stats.season_shots,
     avg_goals |-> stats.avg_goals,
     avg_shots |-> stats.avg_shots,
     shooting_pct |-> stats.shooting_pct,
     last5_goals |-> stats.last5_goals]

\* The roster loops of every team, in fetch order: an entry is appended
\* when its stats exist and show at least MinGames games.
RECURSIVE get_team_roster_with_stats(_)
get_team_roster_with_stats(entries) ==
    IF entries = <<>> THEN <<>>
    ELSE LET stats == get_player_current_stats(Head(entries).api)
             rest == get_team_roster_with_stats(Tail(entries))
         IN  IF Eligible(stats)
             THEN <<PlayerOf(Head(entries), stats)>> \o rest
             ELSE rest

----------------------------------------------------------------------------
(* daily_predict.py, section 5: raw score, normalisation, sort, rank *)

\* goal_probability_raw with 0.35 as the weight of avg_goals.
goal_probability_raw_035(p) ==
    p.avg_goals * 35 + p.avg_shots * 80 + p.last5_goals * 5000
        + p.shooting_pct * 15

goal_probability_raw(p) ==
    p.avg_goals * 40 + p.avg_shots * 80 + p.last5_goals * 5000
        + p.shooting_pct * 15

max_prob(players) ==
    MaxOf({goal_probability_raw(players[i]) : i \in 1..Len(players)})

\* round(min(max(raw / max_prob * 0.55, 0.02), 0.60), 3), for max_prob > 0
goal_probability(raw, maxp) ==
    IF ProbScale * raw < ProbFloor * maxp THEN ProbFloor
    ELSE IF ProbScale * raw > ProbCeil * maxp THEN ProbCeil
    ELSE round(ProbScale * raw, maxp)

Scored(p, maxp) ==
    [player_id |-> p.player_id,
     games_played |-> p.games_played,
     season_goals |-> p.season_goals,
     season_shots |-> p.season_shots,
     avg_goals |-> p.avg_goals,
     avg_shots |-> p.avg_shots,
     shooting_pct |-> p.shooting_pct,
     last5_goals |-> p.last5_goals,
     goal_probability |-> goal_probability(goal_probability_raw(p), maxp)]

Normalize(players) ==
    [i \in 1..Len(players) |-> Scored(players[i], max_prob(players))]

\* list.sort on a short list is a binary insertion sort: an element goes
\* after the elements whose key is not greater than its own.
RECURSIVE InsertAsc(_, _)
InsertAsc(s, x) ==
    IF s = <<>> THEN <<x>>
    ELSE IF Head(s).goal_probability <= x.goal_probability
         THEN <<Head(s)>> \o InsertAsc(Tail(s), x)
         ELSE <<x>> \o s

RECURSIVE SortAsc(_)
SortAsc(s) ==
    IF s = <<>> THEN <<>>
    ELSE InsertAsc(SortAsc(SubSeq(s, 1, Len(s) - 1)), s[Len(s)])

\* sort_reverse without reverse=True.
sort_ascending(s) == SortAsc(s)

\* sort_reverse as an ascending sort whose result is reversed.
sort_then_reverse(s) == Reverse(SortAsc(s))

\* all_players.sort(key=..., reverse=True): the list is reversed, sorted
\* ascending and reversed again, which keeps equal keys in input order.
sort_reverse(s) == Reverse(SortAsc(Reverse(s)))

Ranked(p, i) ==
    [player_id |-> p.player_id,
     games_played |-> p.games_played,
     season_goals |-> p.season_goals,
     season_shots |-> p.season_shots,
     avg_goals |-> p.avg_goals,
     avg_shots |-> p.avg_shots,
     shooting_pct |-> p.shooting_pct,
     last5_goals |-> p.last5_goals,
     goal_probability |-> p.goal_probability,
     rank |-> i,
     is_hot |-> p.last5_goals >= HotGoals]

\* add_rank without the + 1 of enumerate's index.
add_rank_from_zero(s) == [i \in 1..Len(s) |-> Ranked(s[i], i - 1)]

add_rank(s) == [i \in 1..Len(s) |-> Ranked(s[i], i)]

\* Section 5 as a whole, for a batch whose maximum raw score is positive.
score(players) == add_rank(sort_reverse(Normalize(players)))

Snapshot(date, gs, preds) ==
    [date |-> date,
     model |-> MODEL_NAME,
     games_count |-> Len(gs),
     games |-> gs,
     players_count |-> Len(preds),
     predictions |-> preds]

----------------------------------------------------------------------------
(* Inputs: what the external API may answer *)

NotFound == [found |-> FALSE, gamesPlayed |-> 0, goals |-> 0, shots |-> 0,
             last5_goals |-> 0]
NoGames == [found |-> TRUE, gamesPlayed |-> 0, goals |-> 0, shots |-> 0,
            last5_goals |-> 0]
TwoGames == [found |-> TRUE, gamesPlayed |-> 2, goals |-> 1, shots |-> 4,
             last5_goals |-> 1]
ZeroLine == [found |-> TRUE, gamesPlayed |-> 3, goals |-> 0, shots |-> 0,
             last5_goals |-> 0]
GoalNoShot == [found |-> TRUE, gamesPlayed |-> 3, goals |-> 1, shots |-> 0,
               last5_goals |-> 1]
MidLine == [found |-> TRUE, gamesPlayed |-> 4, goals |-> 1, shots |-> 6,
            last5_goals |-> 1]
HighLine == [found |-> TRUE, gamesPlayed |-> 5, goals |-> 4, shots |-> 15,
             last5_goals |-> 3]

LowLine == [found |-> TRUE, gamesPlayed |-> 3, goals |-> 0, shots |-> 1,
            last5_goals |-> 0]

ApiAnswers == {NotFound, NoGames, TwoGames, ZeroLine, LowLine, GoalNoShot,
               MidLine, HighLine}

\* Three stat lines whose raw scores are 0.41, 0.30 and 0.20.
Raw41 == [found |-> TRUE, gamesPlayed |-> 4, goals |-> 2, shots |-> 5,
          last5_goals |-> 1]
Raw30 == [found |-> TRUE, gamesPlayed |-> 5, goals |-> 2, shots |-> 5,
          last5_goals |-> 0]
Raw20 == [found |-> TRUE, gamesPlayed |-> 4, goals |-> 0, shots |-> 10,
          last5_goals |-> 0]

\* A roster: the entries of all teams in fetch order, each with the answer
\* of the player endpoint.  Player ids are distinct.
RosterOf(answers) ==
    [i \in 1..Len(answers) |-> [player_id |-> i, api |-> answers[i]]]

ScenarioRoster == RosterOf(<<Raw41, Raw30, Raw20>>)

Rosters ==
    UNION {{RosterOf(a) : a \in [1..n -> ApiAnswers]} : n \in 0..MaxRoster}
        \cup {ScenarioRoster}

Game == [game_id |-> 1, home_team |-> "TOR", away_team |-> "MTL"]

GameLists == {<<>>, <<Game>>}

----------------------------------------------------------------------------
(* daily_predict.py as a sequence of steps *)

NoSnapshot == Snapshot(0, <<>>, <<>>)

PredictIdle ==
    /\ TODAY = 0
    /\ todays_games = <<>>
    /\ roster = <<>>
    /\ all_players = <<>>
    /\ output = NoSnapshot

\* The process ends: its memory is gone.
PredictExit(status) ==
    /\ pc' = "idle"
    /\ exit_status' = status
    /\ TODAY' = 0
    /\ todays_games' = <<>>
    /\ roster' = <<>>
    /\ all_players' = <<>>
    /\ output' = NoSnapshot

\* Config: TODAY is read from the clock once, when the script starts.
LaunchPredict ==
    /\ pc = "idle"
    /\ pc' = "p_games"
    /\ TODAY' = clock
    /\ UNCHANGED <<clock, exit_status, todays_games, roster, all_players,
                   output, predStore, resultVars, resultStore, dashboardVars>>

\* Section 1: fetch today's games; with none, the empty snapshot is built.
FetchTodaysGames ==
    /\ pc = "p_games"
    /\ \E gs \in GameLists :
        /\ todays_games' = gs
        /\ IF gs = <<>>
           THEN /\ output' = Snapshot(TODAY, <<>>, <<>>)
                /\ pc' = "p_dated"
           ELSE /\ output' = output
                /\ pc' = "p_roster"
    /\ UNCHANGED <<clock, exit_status, TODAY, roster, all_players, predStore,
                   resultVars, resultStore, dashboardVars>>

\* Sections 2 to 4: collect the eligible players of the rosters.
CollectPlayers(rosters) ==
    /\ pc = "p_roster"
    /\ \E r \in rosters :
        /\ roster' = r
        /\ all_players' = get_team_roster_with_stats(r)
        /\ IF all_players' = <<>>
           THEN /\ output' = Snapshot(TODAY, todays_games, <<>>)
                /\ pc' = "p_dated"
           ELSE /\ output' = output
                /\ pc' = "p_score"
    /\ UNCHANGED <<clock, exit_status, TODAY, todays_games, predStore,
                   resultVars, resultStore, dashboardVars>>

\* Section 5: the division by max_prob raises ZeroDivisionError when every
\* raw score is zero, and the script dies before writing anything.
ScorePlayers ==
    /\ pc = "p_score"
    /\ IF max_prob(all_players) = 0
       THEN PredictExit("ZeroDivisionError")
       ELSE /\ all_players' = score(all_players)
            /\ output' = Snapshot(TODAY, todays_games, all_players')
            /\ pc' = "p_dated"
            /\ UNCHANGED <<exit_status, TODAY, todays_games, roster>>
    /\ UNCHANGED <<clock, predStore, resultVars, resultStore, dashboardVars>>

Put(files, date, content) ==
    [d \in DOMAIN files \cup {date} |-> IF d = date THEN content ELSE files[d]]

\* Section 6, first write: the dated file.
SaveDated ==
    /\ pc = "p_dated"
    /\ predFiles' = Put(predFiles, TODAY, output)
    /\ pc' = "p_latest"
    /\ UNCHANGED <<clock, exit_status, predictVars, predLatest, resultVars,
                   resultStore, dashboardVars>>

\* Section 6, second write: latest.json; then the script ends.
SaveLatest ==
    /\ pc = "p_latest"
    /\ predLatest' = <<output>>
    /\ PredictExit("ok")
    /\ UNCHANGED <<clock, predFiles, resultVars, resultStore, dashboardVars>>

----------------------------------------------------------------------------
(* fetch_results.py, section 3: the comparison of one model's snapshot *)

scorer_ids(scorers) == {scorers[i].player_id : i \in 1..Len(scorers)}

Pick(pred, ids) ==
    [rank |-> pred.rank,
     probability |-> pred.goal_probability,
     scored |-> pred.player_id \in ids]

hit_count(hits) == Cardinality({i \in 1..Len(hits) : hits[i].scored})

\* compare recording the number of picks as the day's opportunities.
compare_counting_picks(model_name, predictions, scorers) ==
    LET top_predictions == First(predictions.predictions, TopN)
        hits == [i \in 1..Len(top_predictions) |->
                    Pick(top_predictions[i], scorer_ids(scorers))]
    IN  [model |-> model_name,
         top3_picks |-> hits,
         hits |-> hit_count(hits),
         total_predictions |-> Len(hits)]

\* compare without the [:3] cut.
compare_all(model_name, predictions, scorers) ==
    LET top_predictions == predictions.predictions
        hits == [i \in 1..Len(top_predictions) |->
                    Pick(top_predictions[i], scorer_ids(scorers))]
    IN  [model |-> model_name,
         top3_picks |-> hits,
         hits |-> hit_count(hits),
         total_predictions |-> TopN]

compare(model_name, predictions, scorers) ==
    LET top_predictions == First(predictions.predictions, TopN)
        hits == [i \in 1..Len(top_predictions) |->
                    Pick(top_predictions[i], scorer_ids(scorers))]
    IN  [model |-> model_name,
         top3_picks |-> hits,
         hits |-> hit_count(hits),
         total_predictions |-> TopN]

ResultRecord(date, gs, scorers, comparisons) ==
    [date |-> date,
     games_count |-> Len(gs),
     all_scorers |-> scorers,
     scorers_count |-> Len(scorers),
     model_comparisons |-> comparisons]

\* The box scores list the players with goals > 0.  A scorer list: the
\* chosen players in id order, the even ids with two goals.
ScorerIds == 1..(MaxRoster + 1)

RECURSIVE ScorerList(_)
ScorerList(S) ==
    IF S = {} THEN <<>>
    ELSE LET m == MaxOf(S)
         IN  ScorerList(S \ {m})
                 \o <<[player_id |-> m, goals |-> IF m % 2 = 0 THEN 2 ELSE 1]>>

ScorerLists == {ScorerList(S) : S \in SUBSET ScorerIds}

----------------------------------------------------------------------------
(* fetch_results.py as a sequence of steps *)

ResultsExit(status) ==
    /\ pc' = "idle"
    /\ exit_status' = status
    /\ YESTERDAY' = 0
    /\ games' = <<>>
    /\ all_scorers' = <<>>
    /\ comparison_results' = <<>>

\* Config: YESTERDAY is the day before the clock's.
LaunchResults ==
    /\ pc = "idle"
    /\ pc' = "r_games"
    /\ YESTERDAY' = clock - 1
    /\ UNCHANGED <<clock, exit_status, predictVars, predStore, games,
                   all_scorers, comparison_results, resultStore,
                   dashboardVars>>

\* FetchGamesForDate writing an empty results record when there are no games.
FetchGamesForDate_empty_record ==
    /\ pc = "r_games"
    /\ \E gs \in GameLists :
        /\ games' = gs
        /\ pc' = IF gs = <<>> THEN "r_dated" ELSE "r_scorers"
        /\ UNCHANGED <<exit_status, YESTERDAY, all_scorers, comparison_results>>
    /\ UNCHANGED <<clock, predictVars, predStore, resultStore, dashboardVars>>

\* Section 1: with no games the script exits and writes nothing.
FetchGamesForDate ==
    /\ pc = "r_games"
    /\ \E gs \in GameLists :
        IF gs = <<>>
        THEN ResultsExit("no_games")
        ELSE /\ games' = gs
             /\ pc' = "r_scorers"
             /\ UNCHANGED <<exit_status, YESTERDAY, all_scorers,
                            comparison_results>>
    /\ UNCHANGED <<clock, predictVars, predStore, resultStore, dashboardVars>>

\* Section 2: the scorers of every game.
FetchScorers(lists) ==
    /\ pc = "r_scorers"
    /\ \E sc \in lists : all_scorers' = sc
    /\ pc' = "r_compare"
    /\ UNCHANGED <<clock, exit_status, predictVars, predStore, YESTERDAY,
                   games, comparison_results, resultStore, dashboardVars>>

\* Section 3: one comparison for every model directory that holds a
\* snapshot for YESTERDAY.
ComparePredictions ==
    /\ pc = "r_compare"
    /\ comparison_results' =
           IF YESTERDAY \in DOMAIN predFiles
           THEN <<compare(MODEL_NAME, predFiles[YESTERDAY], all_scorers)>>
           ELSE <<>>
    /\ pc' = "r_dated"
    /\ UNCHANGED <<clock, exit_status, predictVars, predStore, YESTERDAY,
                   games, all_scorers, resultStore, dashboardVars>>

\* Section 4, first write: the dated results file.
SaveResultsDated ==
    /\ pc = "r_dated"
    /\ resultFiles' = Put(resultFiles, YESTERDAY,
           ResultRecord(YESTERDAY, games, all_scorers, comparison_results))
    /\ pc' = "r_latest"
    /\ UNCHANGED <<clock, exit_status, predictVars, predStore, resultVars,
                   resultLatest, dashboardVars>>

\* Section 4, second write: latest.json; then the script ends.
SaveResultsLatest ==
    /\ pc = "r_latest"
    /\ resultLatest' =
           <<ResultRecord(YESTERDAY, games, all_scorers, comparison_results)>>
    /\ ResultsExit("ok")
    /\ UNCHANGED <<clock, predictVars, predStore, resultFiles, dashboardVars>>

----------------------------------------------------------------------------
(* update_dashboard.py, section 2: the statistics of one model *)

\* comps_loop without the test of the model field.
RECURSIVE comps_loop_any(_, _, _)
comps_loop_any(model_name, result, k) ==
    IF k > Len(result.model_comparisons) THEN <<>>
    ELSE LET comp == result.model_comparisons[k]
             rest == comps_loop_any(model_name, result, k + 1)
         IN  <<[date |-> result.date, hits |-> comp.hits]>> \o rest

\* The comparisons of one result file that belong to the model.
RECURSIVE comps_loop(_, _, _)
comps_loop(model_name, result, k) ==
    IF k > Len(result.model_comparisons) THEN <<>>
    ELSE LET comp == result.model_comparisons[k]
             rest == comps_loop(model_name, result, k + 1)
         IN  IF comp.model = model_name
             THEN <<[date |-> result.date, hits |-> comp.hits]>> \o rest
             ELSE rest

\* The two loops: every matching comparison adds its hits, adds 3
\* predictions and appends a daily result.
RECURSIVE stats_loop(_, _, _)
stats_loop(model_name, results, acc) ==
    IF results = <<>> THEN acc
    ELSE LET found == comps_loop(model_name, Head(results), 1)
             hits == SumSeq([i \in 1..Len(found) |-> found[i].hits])
         IN  stats_loop(model_name, Tail(results),
                 [total_hits |-> acc.total_hits + hits,
                  total_predictions |->
                      acc.total_predictions + TopN * Len(found),
                  daily_results |-> acc.daily_results \o found])

\* calculate_model_stats counting the result files as the days.
calculate_model_stats_files(model_name, results) ==
    LET acc == stats_loop(model_name, results,
                   [total_hits |-> 0, total_predictions |-> 0,
                    daily_results |-> <<>>])
    IN  [total_days |-> Len(results),
         total_hits |-> acc.total_hits,
         total_predictions |-> acc.total_predictions,
         hit_rate |-> IF acc.total_predictions > 0
                      THEN round(1000 * acc.total_hits, acc.total_predictions)
                      ELSE 0,
         daily_results |-> Last(acc.daily_results, RetainDays)]

\* calculate_model_stats with the rate taken per day.
calculate_model_stats_per_day(model_name, results) ==
    LET acc == stats_loop(model_name, results,
                   [total_hits |-> 0, total_predictions |-> 0,
                    daily_results |-> <<>>])
    IN  [total_days |-> Len(acc.daily_results),
         total_hits |-> acc.total_hits,
         total_predictions |-> acc.total_predictions,
         hit_rate |-> IF acc.total_predictions > 0
                      THEN round(1000 * acc.total_hits, Len(acc.daily_results))
                      ELSE 0,
         daily_results |-> Last(acc.daily_results, RetainDays)]

\* calculate_model_stats keeping a week of daily results.
calculate_model_stats_week(model_name, results) ==
    LET acc == stats_loop(model_name, results,
                   [total_hits |-> 0, total_predictions |-> 0,
                    daily_results |-> <<>>])
    IN  [total_days |-> Len(acc.daily_results),
         total_hits |-> acc.total_hits,
         total_predictions |-> acc.total_predictions,
         hit_rate |-> IF acc.total_predictions > 0
                      THEN round(1000 * acc.total_hits, acc.total_predictions)
                      ELSE 0,
         daily_results |-> Last(acc.daily_results, 7)]

\* calculate_model_stats continuing from the totals of the last run.
calculate_model_stats_incremental(model_name, results) ==
    LET before == IF model_name \in DOMAIN model_stats
                  THEN model_stats[model_name]
                  ELSE [total_hits |-> 0, total_predictions |-> 0]
        acc == stats_loop(model_name, results,
                   [total_hits |-> before.total_hits,
                    total_predictions |-> before.total_predictions,
                    daily_results |-> <<>>])
    IN  [total_days |-> Len(acc.daily_results),
         total_hits |-> acc.total_hits,
         total_predictions |-> acc.total_predictions,
         hit_rate |-> IF acc.total_predictions > 0
                      THEN round(1000 * acc.total_hits, acc.total_predictions)
                      ELSE 0,
         daily_results |-> Last(acc.daily_results, RetainDays)]

calculate_model_stats(model_name, results) ==
    LET acc == stats_loop(model_name, results,
                   [total_hits |-> 0, total_predictions |-> 0,
                    daily_results |-> <<>>])
    IN  [total_days |-> Len(acc.daily_results),
         total_hits |-> acc.total_hits,
         total_predictions |-> acc.total_predictions,
         hit_rate |-> IF acc.total_predictions > 0
                      THEN round(1000 * acc.total_hits, acc.total_predictions)
                      ELSE 0,
         daily_results |-> Last(acc.daily_results, RetainDays)]

\* os.listdir sorted: the dated files in date order.
RECURSIVE SortedFiles(_)
SortedFiles(files) ==
    IF DOMAIN files = {} THEN <<>>
    ELSE LET m == MaxOf(DOMAIN files)
         IN  SortedFiles([d \in DOMAIN files \ {m} |-> files[d]])
                 \o <<files[m]>>

\* What the page shows of a model's statistics.
Rendered(stats) ==
    [m \in DOMAIN stats |->
        [hit_rate |-> stats[m].hit_rate,
         total_hits |-> stats[m].total_hits,
         total_days |-> stats[m].total_days]]

----------------------------------------------------------------------------
(* update_dashboard.py as a sequence of steps *)

\* Section 1: load latest.json of every model and the dated results.
LoadData ==
    /\ pc = "idle"
    /\ pc' = "d_stats"
    /\ predictions_by_model' =
           IF predLatest = <<>> THEN <<>>
           ELSE [m \in {MODEL_NAME} |-> predLatest[1]]
    /\ historical_results' = SortedFiles(resultFiles)
    /\ UNCHANGED <<clock, exit_status, predictVars, predStore, resultVars,
                   resultStore, model_stats, indexHtml>>

\* Section 2: the statistics of every model that has a latest.json.
CalculateStatistics ==
    /\ pc = "d_stats"
    /\ pc' = "d_html"
    /\ model_stats' =
           [m \in DOMAIN predictions_by_model |->
               calculate_model_stats(m, historical_results)]
    /\ UNCHANGED <<clock, exit_status, predictVars, predStore, resultVars,
                   resultStore, predictions_by_model, historical_results,
                   indexHtml>>

\* Section 3: write index.html; then the script ends.  model_stats stays
\* as the record of what this run computed.
GenerateHtml ==
    /\ pc = "d_html"
    /\ indexHtml' = <<Rendered(model_stats)>>
    /\ pc' = "idle"
    /\ exit_status' = "dashboard"
    /\ predictions_by_model' = <<>>
    /\ historical_results' = <<>>
    /\ UNCHANGED <<clock, predictVars, predStore, resultVars, resultStore,
                   model_stats>>

----------------------------------------------------------------------------
(* The prediction run on any roster *)

InitScore ==
    /\ clock = 1
    /\ pc = "p_games"
    /\ exit_status = "none"
    /\ TODAY = 1
    /\ todays_games = <<>>
    /\ roster = <<>>
    /\ all_players = <<>>
    /\ output = NoSnapshot
    /\ predFiles = <<>>
    /\ predLatest = <<>>
    /\ YESTERDAY = 0
    /\ games = <<>>
    /\ all_scorers = <<>>
    /\ comparison_results = <<>>
    /\ resultFiles = <<>>
    /\ resultLatest = <<>>
    /\ predictions_by_model = <<>>
    /\ historical_results = <<>>
    /\ model_stats = <<>>
    /\ indexHtml = <<>>

NextScore ==
    \/ FetchTodaysGames
    \/ CollectPlayers(Rosters)
    \/ ScorePlayers
    \/ SaveDated
    \/ SaveLatest

SpecScore == InitScore /\ [][NextScore]_vars

----------------------------------------------------------------------------
(* The comparison run on any stored snapshot and any scorer list *)

ScorableAnswers == {GoalNoShot, MidLine, HighLine}

ScorableRosters ==
    UNION {{RosterOf(a) : a \in [1..n -> ScorableAnswers]} : n \in 1..MaxRoster}

StoredSnapshots ==
    {Snapshot(1, <<>>, <<>>), Snapshot(1, <<Game>>, <<>>)}
        \cup {Snapshot(1, <<Game>>, score(get_team_roster_with_stats(r))) :
                 r \in ScorableRosters}

InitResults ==
    /\ clock = 2
    /\ pc = "r_games"
    /\ exit_status = "ok"
    /\ PredictIdle
    /\ \/ predFiles = <<>> /\ predLatest = <<>>
       \/ \E snap \in StoredSnapshots :
            predFiles = Put(<<>>, 1, snap) /\ predLatest = <<snap>>
    /\ YESTERDAY = 1
    /\ games = <<>>
    /\ all_scorers = <<>>
    /\ comparison_results = <<>>
    /\ resultFiles = <<>>
    /\ resultLatest = <<>>
    /\ predictions_by_model = <<>>
    /\ historical_results = <<>>
    /\ model_stats = <<>>
    /\ indexHtml = <<>>

NextResults ==
    \/ FetchGamesForDate
    \/ FetchScorers(ScorerLists)
    \/ ComparePredictions
    \/ SaveResultsDated
    \/ SaveResultsLatest

SpecResults == InitResults /\ [][NextResults]_vars

----------------------------------------------------------------------------
(* The aggregation run on any historical log *)

OTHER_MODEL == "baseline"

LogPicks(hits) ==
    [i \in 1..TopN |-> [rank |-> i, probability |-> ProbScale - i,
                        scored |-> i <= hits]]

LogComparison(model_name, hits) ==
    [model |-> model_name, top3_picks |-> LogPicks(hits), hits |-> hits,
     total_predictions |-> TopN]

\* The results file of day d in the log family (a, b, v): the model's hits
\* are (a * d + b) % 4; v = 1 adds a comparison of a second model every
\* day, v = 2 has the model on odd days and the second model on even days.
LogResult(d, a, b, v) ==
    LET own == <<LogComparison(MODEL_NAME, (a * d + b) % (TopN + 1))>>
        other == <<LogComparison(OTHER_MODEL, d % (TopN + 1))>>
    IN  ResultRecord(d, <<Game>>, <<>>,
            IF v = 0 THEN own
            ELSE IF v = 1 THEN other \o own
            ELSE IF d % 2 = 1 THEN own ELSE other)

HistoricalLog(n, a, b, v) == [d \in 1..n |-> LogResult(d, a, b, v)]

InitAgg ==
    /\ clock = 1
    /\ pc = "d_stats"
    /\ exit_status = "ok"
    /\ PredictIdle
    /\ predFiles = <<>>
    /\ predLatest = <<>>
    /\ YESTERDAY = 0
    /\ games = <<>>
    /\ all_scorers = <<>>
    /\ comparison_results = <<>>
    /\ resultFiles = <<>>
    /\ resultLatest = <<>>
    /\ \E ms \in {{MODEL_NAME}, {MODEL_NAME, OTHER_MODEL}} :
         predictions_by_model = [m \in ms |-> Snapshot(1, <<>>, <<>>)]
    /\ \E n \in 0..MaxHist, a \in 0..TopN, b \in 0..TopN, v \in 0..2 :
         historical_results = HistoricalLog(n, a, b, v)
    /\ model_stats = <<>>
    /\ indexHtml = <<>>

NextAgg ==
    \/ CalculateStatistics
    \/ GenerateHtml

SpecAgg == InitAgg /\ [][NextAgg]_vars

----------------------------------------------------------------------------
(* The three scripts run one at a time, over several days *)

PipelineRosters ==
    {RosterOf(<<ZeroLine>>),
     RosterOf(<<TwoGames, NotFound>>),
     RosterOf(<<MidLine, HighLine, MidLine, GoalNoShot>>)}

PipelineScorers == {<<>>, ScorerList({1, 2, 5})}

\* Midnight passes between two runs.
Tick ==
    /\ pc = "idle"
    /\ clock < MaxDay
    /\ clock' = clock + 1
    /\ UNCHANGED <<pc, exit_status, predictVars, predStore, resultVars,
                   resultStore, dashboardVars>>

Init ==
    /\ clock = 1
    /\ pc = "idle"
    /\ exit_status = "none"
    /\ PredictIdle
    /\ predFiles = <<>>
    /\ predLatest = <<>>
    /\ YESTERDAY = 0
    /\ games = <<>>
    /\ all_scorers = <<>>
    /\ comparison_results = <<>>
    /\ resultFiles = <<>>
    /\ resultLatest = <<>>
    /\ predictions_by_model = <<>>
    /\ historical_results = <<>>
    /\ model_stats = <<>>
    /\ indexHtml = <<>>

Next ==
    \/ Tick
    \/ LaunchPredict
    \/ FetchTodaysGames
    \/ CollectPlayers(PipelineRosters)
    \/ ScorePlayers
    \/ SaveDated
    \/ SaveLatest
    \/ LaunchResults
    \/ FetchGamesForDate
    \/ FetchScorers(PipelineScorers)
    \/ ComparePredictions
    \/ SaveResultsDated
    \/ SaveResultsLatest
    \/ LoadData
    \/ CalculateStatistics
    \/ GenerateHtml

Spec == Init /\ [][Next]_vars

----------------------------------------------------------------------------
(* Properties of the prediction run (SpecScore) *)

Saving == pc \in {"p_dated", "p_latest"}

Collected == pc \in {"p_score", "p_dated", "p_latest"} /\ todays_games # <<>>

HasHistory(entry) == entry.api.found /\ entry.api.gamesPlayed >= 3

EligibleIds ==
    {roster[i].player_id : i \in {j \in 1..Len(roster) : HasHistory(roster[j])}}

InputPos(id) == CHOOSE i \in 1..Len(roster) : roster[i].player_id = id

\* x is a nearest integer to num / den
Nearest(x, num, den) == 2 * (x * den - num) <= den /\ 2 * (num - x * den) <= den

\* C1: the ranked output has one entry for every player of the input batch,
\* each player exactly once, and the entry at position i has rank i, so
\* that the ranks are exactly 1..n.
C1_RanksArePermutation ==
    Saving =>
        LET preds == output.predictions
        IN  /\ Len(preds) = Cardinality(EligibleIds)
            /\ \A id \in EligibleIds :
                 Cardinality({i \in 1..Len(preds) : preds[i].player_id = id}) = 1
            /\ \A i \in 1..Len(preds) : preds[i].rank = i
            /\ {preds[i].rank : i \in 1..Len(preds)} = 1..Len(preds)

C1_Witness ==
    /\ pc = "p_dated"
    /\ Len(output.predictions) >= 3
    /\ Len(roster) > Len(output.predictions)
    /\ output.predictions[1].player_id # roster[1].player_id

\* C2 (as claimed): for every non-empty batch of eligible players the
\* scoring step completes, and every stored goal_probability lies in
\* [0.02, 0.60].
C2_ScoringCompletesInRange ==
    /\ exit_status # "ZeroDivisionError"
    /\ Saving =>
         \A i \in 1..Len(output.predictions) :
            /\ output.predictions[i].goal_probability >= ProbFloor
            /\ output.predictions[i].goal_probability <= ProbCeil

\* C3: the ranked list is in descending order of goal_probability, and two
\* players with the same goal_probability stand in their input order.
C3_SortedDescendingStable ==
    Saving =>
        LET preds == output.predictions
        IN  \A i, j \in 1..Len(preds) :
              i < j =>
                /\ preds[i].goal_probability >= preds[j].goal_probability
                /\ preds[i].goal_probability = preds[j].goal_probability
                     => InputPos(preds[i].player_id) < InputPos(preds[j].player_id)

C3_Witness ==
    /\ pc = "p_dated"
    /\ Len(output.predictions) >= 3
    /\ output.predictions[2].goal_probability
         = output.predictions[3].goal_probability
    /\ output.predictions[1].goal_probability
         > output.predictions[2].goal_probability
    /\ InputPos(output.predictions[1].player_id)
         > InputPos(output.predictions[3].player_id)

\* C8: a roster player is in the collected and in the ranked set exactly
\* when the API returned stats with at least 3 games, whatever the other
\* entries of the roster are; a player who is in carries the feature set
\* computed from the stats.
C8_InsufficientHistoryOmitted ==
    Collected =>
        \A i \in 1..Len(roster) :
            LET e == roster[i]
                at == {k \in 1..Len(all_players) :
                          all_players[k].player_id = e.player_id}
            IN  /\ (at # {}) <=> HasHistory(e)
                /\ \A k \in at :
                     /\ all_players[k].games_played = e.api.gamesPlayed
                     /\ all_players[k].season_goals = e.api.goals
                     /\ all_players[k].season_shots = e.api.shots
                     /\ all_players[k].last5_goals = e.api.last5_goals
                     /\ Nearest(all_players[k].avg_goals, 1000 * e.api.goals,
                                e.api.gamesPlayed)
                     /\ Nearest(all_players[k].avg_shots, 100 * e.api.shots,
                                e.api.gamesPlayed)

C8_Witness ==
    /\ pc = "p_dated"
    /\ Len(roster) = 4
    /\ roster[1].api.found /\ roster[1].api.gamesPlayed = 2
    /\ ~roster[2].api.found
    /\ roster[3].api.found /\ roster[3].api.gamesPlayed = 3
    /\ Len(output.predictions) = 2
    /\ \E k \in 1..2 : output.predictions[k].player_id = roster[3].player_id

\* C9 (as claimed): the shooting percentage is season goals divided by
\* max(season shots, 1), so with zero shots and g goals it is g / 1.
C9_ShootingPctFlooredDenominator ==
    Collected =>
        \A k \in 1..Len(all_players) :
            LET p == all_players[k]
            IN  Nearest(p.shooting_pct, 1000 * p.season_goals,
                        IF p.season_shots > 1 THEN p.season_shots ELSE 1)

\* C9 (amended): the shooting percentage is season goals divided by season
\* shots when there are shots, and 0 when there are none, whatever the
\* goal count.
C9_ShootingPctZeroWithoutShots ==
    Collected =>
        \A k \in 1..Len(all_players) :
            LET p == all_players[k]
            IN  IF p.season_shots > 0
                THEN Nearest(p.shooting_pct, 1000 * p.season_goals,
                             p.season_shots)
                ELSE p.shooting_pct = 0

C9_Witness ==
    /\ pc = "p_dated"
    /\ \E k \in 1..Len(output.predictions) :
         /\ output.predictions[k].season_shots = 0
         /\ output.predictions[k].season_goals > 0
         /\ output.predictions[k].shooting_pct = 0
    /\ \E k \in 1..Len(output.predictions) :
         /\ output.predictions[k].season_shots > 0
         /\ output.predictions[k].shooting_pct > 0

\* C10 (as claimed): when the batch is not empty and its maximum raw score
\* is zero, the scoring step raises no error and goes on to a ranked
\* snapshot of the whole batch.
C10_ZeroMaximumFailsSoft ==
    [][(pc = "p_score" /\ max_prob(all_players) = 0)
          => /\ exit_status' # "ZeroDivisionError"
             /\ pc' = "p_dated"
             /\ Len(output'.predictions) = Len(all_players)]_vars

----------------------------------------------------------------------------
(* Properties of the comparison run (SpecResults) *)

Compared == pc \in {"r_dated", "r_latest"} /\ comparison_results # <<>>

IsScorer(id) == \E k \in 1..Len(all_scorers) : all_scorers[k].player_id = id

\* C4: the picks are the first 3 predictions in rank order (all of them
\* when there are fewer), a pick is tagged scored exactly when its player
\* is among the scorers, with one goal or several, and hits counts the
\* picks tagged scored.
C4_TopThreeComparison ==
    Compared =>
        LET comp == comparison_results[1]
            preds == predFiles[YESTERDAY].predictions
            n == IF Len(preds) < 3 THEN Len(preds) ELSE 3
        IN  /\ Len(comp.top3_picks) = n
            /\ \A k \in 1..n :
                 /\ comp.top3_picks[k].rank = k
                 /\ preds[k].rank = k
                 /\ comp.top3_picks[k].scored <=> IsScorer(preds[k].player_id)
            /\ comp.hits =
                 Cardinality({k \in 1..n : IsScorer(preds[k].player_id)})

\* Two of the top three scored, one of them twice, and so did the fourth.
C4_Witness ==
    /\ pc = "r_dated"
    /\ comparison_results # <<>>
    /\ Len(predFiles[YESTERDAY].predictions) >= 4
    /\ comparison_results[1].hits = 2
    /\ IsScorer(predFiles[YESTERDAY].predictions[4].player_id)
    /\ \E k \in 1..Len(all_scorers) :
         /\ all_scorers[k].goals = 2
         /\ \E i \in 1..3 :
              predFiles[YESTERDAY].predictions[i].player_id
                  = all_scorers[k].player_id

----------------------------------------------------------------------------
(* Properties of the aggregation run (SpecAgg, Spec) *)

\* The comparisons of a model in the loaded log, as <<file, position>>.
ComparisonsOf(m) ==
    UNION {{<<d, k>> : k \in {j \in 1..Len(historical_results[d].model_comparisons) :
                                historical_results[d].model_comparisons[j].model = m}} :
           d \in 1..Len(historical_results)}

ComparisonAt(x) == historical_results[x[1]].model_comparisons[x[2]]

RECURSIVE SumOver(_, _)
SumOver(S, field) ==
    IF S = {} THEN 0
    ELSE LET x == CHOOSE y \in S : TRUE
         IN  ComparisonAt(x)[field] + SumOver(S \ {x}, field)

\* C5: the cumulative hit rate of a model is the sum of the hits over the
\* sum of the opportunities recorded in its comparisons, as a percentage
\* to one decimal, and 0 when there are no opportunities.
C5_CumulativeHitRate ==
    pc = "d_html" =>
        \A m \in DOMAIN model_stats :
            LET hits == SumOver(ComparisonsOf(m), "hits")
                opportunities == SumOver(ComparisonsOf(m), "total_predictions")
            IN  /\ model_stats[m].total_hits = hits
                /\ model_stats[m].total_predictions = opportunities
                /\ IF opportunities = 0
                   THEN model_stats[m].hit_rate = 0
                   ELSE Nearest(model_stats[m].hit_rate, 1000 * hits,
                                opportunities)

\* 10 hits of 30 give 33.3, and a model without comparisons gives 0.
C5_Witness ==
    /\ pc = "d_html"
    /\ DOMAIN model_stats = {MODEL_NAME, OTHER_MODEL}
    /\ model_stats[MODEL_NAME].total_hits = 10
    /\ model_stats[MODEL_NAME].total_predictions = 30
    /\ model_stats[MODEL_NAME].hit_rate = 333
    /\ model_stats[OTHER_MODEL].total_predictions = 0
    /\ model_stats[OTHER_MODEL].hit_rate = 0

\* The comparisons of a model in the last k result files that hold one.
TrailingOf(m, k) ==
    LET days == {x[1] : x \in ComparisonsOf(m)}
    IN  {x \in ComparisonsOf(m) :
            Cardinality({d \in days : d > x[1]}) < k}

Figures(stats) == {stats.total_days, stats.total_hits,
                   stats.total_predictions, stats.hit_rate}

\* C6 (as claimed): the statistics of a model hold the hits, the
\* opportunities and the hit rate of its last 7 daily comparisons.
C6_TrailingSevenFigures ==
    pc = "d_html" =>
        \A m \in DOMAIN model_stats :
            LET hits == SumOver(TrailingOf(m, 7), "hits")
                opportunities == SumOver(TrailingOf(m, 7), "total_predictions")
            IN  /\ hits \in Figures(model_stats[m])
                /\ opportunities \in Figures(model_stats[m])
                /\ \E r \in Figures(model_stats[m]) :
                     IF opportunities = 0 THEN r = 0
                     ELSE Nearest(r, 1000 * hits, opportunities)

\* C6 (amended): the statistics of a model hold the cumulative figures
\* over all its daily comparisons and, as the only trailing window, the
\* date and hits of its last 10 daily comparisons in log order.
C6_CumulativeAndLastTen ==
    pc = "d_html" =>
        \A m \in DOMAIN model_stats :
            LET st == model_stats[m]
                all == ComparisonsOf(m)
                kept == TrailingOf(m, 10)
                n == Len(st.daily_results)
            IN  /\ DOMAIN st = {"total_days", "total_hits", "total_predictions",
                                "hit_rate", "daily_results"}
                /\ st.total_days = Cardinality(all)
                /\ st.total_hits = SumOver(all, "hits")
                /\ n = Cardinality(kept)
                /\ \A i \in 1..n :
                     \E x \in kept :
                        /\ st.daily_results[i].date = historical_results[x[1]].date
                        /\ st.daily_results[i].hits = ComparisonAt(x).hits
                        /\ Cardinality({y \in kept : y[1] < x[1]}) = i - 1

\* 11 days of comparisons: 10 are kept, and no figure is the last-7 rate.
C6_Witness ==
    /\ pc = "d_html"
    /\ MODEL_NAME \in DOMAIN model_stats
    /\ model_stats[MODEL_NAME].total_days = 11
    /\ Len(model_stats[MODEL_NAME].daily_results) = 10
    /\ model_stats[MODEL_NAME].daily_results[1].date = 2
    /\ model_stats[MODEL_NAME].hit_rate
         # round(1000 * SumOver(TrailingOf(MODEL_NAME, 7), "hits"), 21)

\* C7: an aggregation run that follows an aggregation run, with no other
\* script run in between, computes the statistics the first one computed;
\* what the first one left behind does not enter the result.
C7_AggregationIdempotent ==
    [][(pc = "d_stats" /\ pc' = "d_html" /\ exit_status = "dashboard")
          => model_stats' = model_stats]_vars

C7_Witness ==
    /\ pc = "d_html"
    /\ exit_status = "dashboard"
    /\ MODEL_NAME \in DOMAIN model_stats
    /\ model_stats[MODEL_NAME].total_days >= 1
    /\ model_stats[MODEL_NAME].total_hits >= 1
    /\ indexHtml = <<Rendered(model_stats)>>

----------------------------------------------------------------------------
(* The empty prediction list (SpecResults) *)

EmptyCompared == Compared /\ predFiles[YESTERDAY].predictions = <<>>

\* C11 (as claimed): with an empty stored prediction list the comparison
\* is made without error and records no picks, no hits and 0 opportunities.
C11_EmptyListZeroOpportunities ==
    EmptyCompared =>
        /\ comparison_results[1].top3_picks = <<>>
        /\ comparison_results[1].hits = 0
        /\ comparison_results[1].total_predictions = 0

\* C11 (amended): with an empty stored prediction list the comparison is
\* made without error and records no picks and no hits, and the fixed 3
\* opportunities of any other day.
C11_EmptyListThreeOpportunities ==
    /\ EmptyCompared =>
         /\ comparison_results[1].top3_picks = <<>>
         /\ comparison_results[1].hits = 0
         /\ comparison_results[1].total_predictions = 3
    /\ (pc = "r_latest" /\ EmptyCompared) =>
         resultFiles[YESTERDAY].model_comparisons = comparison_results

C11_Witness ==
    /\ pc = "r_latest"
    /\ comparison_results # <<>>
    /\ predFiles[YESTERDAY].predictions = <<>>
    /\ all_scorers # <<>>
    /\ resultFiles[YESTERDAY].model_comparisons[1].total_predictions = 3

----------------------------------------------------------------------------
(* The prediction store and the empty batch (Spec) *)

LatestDate == MaxOf(DOMAIN predFiles)

\* C12 (as claimed): in every state, between the file writes of a run too,
\* latest.json holds the content of the most recently written dated
\* snapshot.
C12_LatestIsNewestSnapshot ==
    DOMAIN predFiles # {} => predLatest = <<predFiles[LatestDate]>>

\* C13 (as claimed): a dated snapshot, once written, keeps the content of
\* the first run that wrote it.
C13_SnapshotWrittenOnce ==
    [][\A d \in DOMAIN predFiles :
          d \in DOMAIN predFiles' /\ predFiles'[d] = predFiles[d]]_vars

\* C14 (as claimed): a prediction run with no games or no eligible player
\* writes a snapshot with an empty predictions list, and a results run
\* with no games writes a results record with empty comparisons.
C14_EmptyBatchLeavesRecord ==
    [][/\ (pc = "p_games" /\ todays_games' = <<>>)
            => (pc' = "p_dated" /\ output' = Snapshot(TODAY, <<>>, <<>>))
       /\ (pc = "p_roster" /\ all_players' = <<>>)
            => (pc' = "p_dated"
                  /\ output' = Snapshot(TODAY, todays_games, <<>>))
       /\ pc = "p_dated" => predFiles'[TODAY] = output
       /\ (pc = "r_games" /\ pc' = "idle")
            => /\ YESTERDAY \in DOMAIN resultFiles'
               /\ resultFiles'[YESTERDAY].model_comparisons = <<>>]_vars

\* C14 (amended): a prediction run with no games or no eligible player
\* writes a snapshot with an empty predictions list; a results run with no
\* games ends normally and writes nothing.
C14_EmptyBatchPredictionRecordOnly ==
    [][/\ (pc = "p_games" /\ todays_games' = <<>>)
            => (pc' = "p_dated" /\ output' = Snapshot(TODAY, <<>>, <<>>))
       /\ (pc = "p_roster" /\ all_players' = <<>>)
            => (pc' = "p_dated"
                  /\ output' = Snapshot(TODAY, todays_games, <<>>))
       /\ pc = "p_dated" => predFiles'[TODAY] = output
       /\ pc = "p_latest"
            => (predLatest' = <<output>> /\ exit_status' = "ok")
       /\ pc = "r_games"
            => /\ pc' \in {"idle", "r_scorers"}
               /\ pc' = "idle" => exit_status' = "no_games"
               /\ UNCHANGED resultStore]_vars

\* A results run has ended for want of games, with no results file at all,
\* after prediction runs that left empty snapshots of both kinds.
C14_Witness ==
    /\ pc = "idle"
    /\ exit_status = "no_games"
    /\ resultFiles = <<>>
    /\ resultLatest = <<>>
    /\ DOMAIN predFiles = {1, 2}
    /\ predFiles[1] = Snapshot(1, <<>>, <<>>)
    /\ predFiles[2] = Snapshot(2, <<Game>>, <<>>)
    /\ predLatest = <<predFiles[2]>>

----------------------------------------------------------------------------
(* The normalised score and the rank order (SpecScore) *)

\* 0.40 avg_goals + 0.08 avg_shots + 0.05 last5_goals + 0.15 shooting_pct,
\* in units of 1/100000
WeightedSum(p) ==
    40 * p.avg_goals + 8 * 10 * p.avg_shots + 5 * 1000 * p.last5_goals
        + 15 * p.shooting_pct

Clamped(x) == IF x < 20 THEN 20 ELSE IF x > 600 THEN 600 ELSE x

Probabilities == [i \in 1..Len(output.predictions) |->
                     output.predictions[i].goal_probability]

Ids == [i \in 1..Len(output.predictions) |-> output.predictions[i].player_id]

\* C15: the score of a player is raw / max(raw) * 0.55 rounded to three
\* decimals and clamped into [0.02, 0.60], raw being the weighted sum; raw
\* scores 0.41, 0.30 and 0.20 give 0.55, 0.402 and 0.268, ranked 1, 2, 3.
C15_NormalizedScore ==
    Saving =>
        LET preds == output.predictions
            raws == {WeightedSum(preds[i]) : i \in 1..Len(preds)}
            Unclamped(x) == IF x = 20 THEN 0..20
                            ELSE IF x = 600 THEN 600..1000 ELSE {x}
        IN  /\ \A i \in 1..Len(preds) :
                 \E r \in Unclamped(preds[i].goal_probability) :
                    /\ Nearest(r, 550 * WeightedSum(preds[i]), MaxOf(raws))
                    /\ preds[i].goal_probability = Clamped(r)
            /\ roster = ScenarioRoster =>
                 /\ [i \in 1..3 |-> WeightedSum(preds[i])]
                      = <<41000, 30000, 20000>>
                 /\ Probabilities = <<550, 402, 268>>
                 /\ Ids = <<1, 2, 3>>
                 /\ [i \in 1..3 |-> preds[i].rank] = <<1, 2, 3>>

C15_Witness ==
    /\ pc = "p_dated"
    /\ roster = ScenarioRoster
    /\ Probabilities = <<550, 402, 268>>

\* C17 (as claimed): a player whose raw score is strictly greater than
\* another's is ranked strictly ahead of him.
C17_RankFollowsRawScore ==
    Saving =>
        LET preds == output.predictions
        IN  \A i, j \in 1..Len(preds) :
              WeightedSum(preds[i]) > WeightedSum(preds[j])
                  => preds[i].rank < preds[j].rank

\* C17 (amended): a player whose raw score is strictly greater than
\* another's never has the smaller goal_probability, and is ranked strictly
\* ahead of him unless rounding and clamping give both the same
\* goal_probability and the other stands earlier in the input batch.
C17_RankFollowsRoundedScore ==
    Saving =>
        LET preds == output.predictions
        IN  \A i, j \in 1..Len(preds) :
              WeightedSum(preds[i]) > WeightedSum(preds[j])
                  => /\ preds[i].goal_probability >= preds[j].goal_probability
                     /\ \/ preds[i].rank < preds[j].rank
                        \/ /\ preds[i].goal_probability
                                = preds[j].goal_probability
                           /\ InputPos(preds[j].player_id)
                                < InputPos(preds[i].player_id)

\* A zero raw score stands ahead of a positive one: both are clamped to
\* 0.02.
C17_Witness ==
    /\ pc = "p_dated"
    /\ \E i, j \in 1..Len(output.predictions) :
         /\ WeightedSum(output.predictions[i]) > WeightedSum(output.predictions[j])
         /\ output.predictions[j].rank < output.predictions[i].rank
         /\ output.predictions[i].goal_probability = 20
         /\ output.predictions[j].goal_probability = 20
         /\ WeightedSum(output.predictions[j]) = 0

----------------------------------------------------------------------------
(* Grouping by model (SpecAgg) *)

\* The log without the comparisons of the models other than m.
RECURSIVE OnlyOf(_, _)
OnlyOf(m, comps) ==
    IF comps = <<>> THEN <<>>
    ELSE (IF Head(comps).model = m THEN <<Head(comps)>> ELSE <<>>)
             \o OnlyOf(m, Tail(comps))

OthersRemoved(m, log) ==
    [d \in 1..Len(log) |->
        [log[d] EXCEPT !.model_comparisons = OnlyOf(m, @)]]

\* The log with the hits of every comparison of another model changed.
OthersChanged(m, log) ==
    [d \in 1..Len(log) |->
        [log[d] EXCEPT !.model_comparisons =
            [k \in 1..Len(@) |->
                IF @[k].model = m THEN @[k]
                ELSE LogComparison(@[k].model, TopN - @[k].hits)]]]

\* The log with a comparison of a third model added to every file.
OthersAdded(m, log) ==
    [d \in 1..Len(log) |->
        [log[d] EXCEPT !.model_comparisons =
            <<LogComparison("ensemble", TopN)>> \o @
                \o <<LogComparison("ensemble", 0)>>]]

\* C16: the statistics of a model are those of its own comparisons alone:
\* removing, changing or adding comparisons of other models in the log
\* gives the same statistics; the daily results kept are in ascending date
\* order, at most 10, and no comparison of the model left out is later
\* than one that is kept.
C16_GroupedByModel ==
    pc = "d_html" =>
        \A m \in DOMAIN model_stats :
            LET st == model_stats[m]
                log == historical_results
                n == Len(st.daily_results)
            IN  /\ st = calculate_model_stats(m, OthersRemoved(m, log))
                /\ st = calculate_model_stats(m, OthersChanged(m, log))
                /\ st = calculate_model_stats(m, OthersAdded(m, log))
                /\ st.total_days = Cardinality(ComparisonsOf(m))
                /\ st.total_hits = SumOver(ComparisonsOf(m), "hits")
                /\ n <= 10
                /\ \A i, j \in 1..n :
                     i < j => st.daily_results[i].date
                                  < st.daily_results[j].date
                /\ \A x \in ComparisonsOf(m) :
                     \/ \E i \in 1..n :
                          /\ st.daily_results[i].date = log[x[1]].date
                          /\ st.daily_results[i].hits = ComparisonAt(x).hits
                     \/ n = 10 /\ log[x[1]].date < st.daily_results[1].date

\* Both models have comparisons on each of 11 days, with different hits.
C16_Witness ==
    /\ pc = "d_html"
    /\ Len(historical_results) = 11
    /\ DOMAIN model_stats = {MODEL_NAME, OTHER_MODEL}
    /\ Cardinality(ComparisonsOf(OTHER_MODEL)) = 11
    /\ model_stats[MODEL_NAME].total_days = 11
    /\ model_stats[MODEL_NAME].total_hits # model_stats[OTHER_MODEL].total_hits
    /\ OthersChanged(MODEL_NAME, historical_results) # historical_results
    /\ Len(model_stats[MODEL_NAME].daily_results) = 10
    /\ model_stats[MODEL_NAME].daily_results[1].date = 2

----------------------------------------------------------------------------
(* The three scripts continuing a season: the files of earlier days exist *)

SeasonRoster == RosterOf(<<MidLine, HighLine, MidLine, GoalNoShot>>)

SeasonScorers == <<ScorerList({}), ScorerList({2}), ScorerList({1, 2, 5})>>

\* What daily_predict.py wrote on day d.
StoredPrediction(d) ==
    Snapshot(d, <<Game>>, score(get_team_roster_with_stats(SeasonRoster)))

\* What fetch_results.py wrote about day d on the day after.
StoredResult(d) ==
    LET sc == SeasonScorers[(d % 3) + 1]
    IN  ResultRecord(d, <<Game>>, sc,
                     <<compare(MODEL_NAME, StoredPrediction(d), sc)>>)

\* The morning of day 1: predictions exist up to day 0, results up to
\* day -1, for the n days before.
InitSeason ==
    /\ clock = 1
    /\ pc = "idle"
    /\ exit_status = "ok"
    /\ PredictIdle
    /\ YESTERDAY = 0
    /\ games = <<>>
    /\ all_scorers = <<>>
    /\ comparison_results = <<>>
    /\ predictions_by_model = <<>>
    /\ historical_results = <<>>
    /\ model_stats = <<>>
    /\ indexHtml = <<>>
    /\ \E n \in {MaxHist - 2, MaxHist - 1} :
         /\ predFiles = [d \in (0 - n)..0 |-> StoredPrediction(d)]
         /\ predLatest = <<StoredPrediction(0)>>
         /\ resultFiles = [d \in (0 - n)..(0 - 1) |-> StoredResult(d)]
         /\ resultLatest = <<StoredResult(0 - 1)>>

NextSeason ==
    \/ Tick
    \/ LaunchPredict
    \/ FetchTodaysGames
    \/ CollectPlayers({SeasonRoster})
    \/ ScorePlayers
    \/ SaveDated
    \/ SaveLatest
    \/ LaunchResults
    \/ FetchGamesForDate
    \/ FetchScorers({SeasonScorers[2], SeasonScorers[3]})
    \/ ComparePredictions
    \/ SaveResultsDated
    \/ SaveResultsLatest
    \/ LoadData
    \/ CalculateStatistics
    \/ GenerateHtml

SpecSeason == InitSeason /\ [][NextSeason]_vars

----------------------------------------------------------------------------
(* The figures after any sequence of runs (SpecSeason) *)

\* The days whose results file holds a comparison of the model.
DaysOf(m) ==
    {d \in DOMAIN resultFiles :
        \E k \in 1..Len(resultFiles[d].model_comparisons) :
            resultFiles[d].model_comparisons[k].model = m}

LastDaysOf(m) ==
    LET days == DaysOf(m)
    IN  {d \in days : Cardinality({e \in days : e > d}) < 10}

\* C18: whatever runs came before, every model's statistics have
\* total_predictions = 3 * total_days, 0 <= total_hits <= total_predictions
\* and a hit rate between 0 and 100; every comparison in a results file
\* has hits <= number of picks <= 3; daily_results has at most 10 entries,
\* and when the statistics are computed they are the last days in date
\* order.
C18_AggregateBounds ==
    /\ \A m \in DOMAIN model_stats :
         LET st == model_stats[m]
         IN  /\ st.total_predictions = 3 * st.total_days
             /\ 0 <= st.total_hits
             /\ st.total_hits <= st.total_predictions
             /\ 0 <= st.hit_rate
             /\ st.hit_rate <= 1000
             /\ Len(st.daily_results) <= 10
             /\ pc = "d_html" =>
                  /\ {st.daily_results[i].date :
                         i \in 1..Len(st.daily_results)} = LastDaysOf(m)
                  /\ \A i, j \in 1..Len(st.daily_results) :
                       i < j => st.daily_results[i].date
                                    < st.daily_results[j].date
    /\ \A d \in DOMAIN resultFiles :
         \A k \in 1..Len(resultFiles[d].model_comparisons) :
            LET c == resultFiles[d].model_comparisons[k]
            IN  /\ 0 <= c.hits
                /\ c.hits <= Len(c.top3_picks)
                /\ Len(c.top3_picks) <= 3

\* The season's 11th comparison has been written by a results run and the
\* first day has left the window; one results file holds no comparison.
C18_Witness ==
    /\ pc = "d_html"
    /\ MODEL_NAME \in DOMAIN model_stats
    /\ model_stats[MODEL_NAME].total_days > 10
    /\ Len(model_stats[MODEL_NAME].daily_results) = 10
    /\ model_stats[MODEL_NAME].daily_results[10].date >= 0
    /\ \E d \in DOMAIN resultFiles : d \notin DaysOf(MODEL_NAME)
    /\ model_stats[MODEL_NAME].total_hits > 0
    /\ model_stats[MODEL_NAME].total_hits
         < model_stats[MODEL_NAME].total_predictions

====
